---- MODULE Spec2Model ----
(***************************************************************************)
(* The chat slice of the application store                                 *)
(* (frontend/src/store/useAppStore.ts): one streaming turn per             *)
(* sendMessage, the WebSocket handlers it installs, stopGeneration and the *)
(* operations that replace the message list.                               *)
(*                                                                         *)
(* Strings are sequences of one-character strings, so that concatenation   *)
(* (fullResponse += data) is \o.  A socket is its index in `sockets`;      *)
(* activeWebSocket = Null stands for null.                                 *)
(***************************************************************************)
EXTENDS Integers, Sequences, FiniteSets, TLC

\* ---------------------------------------------------------------- bounds
MaxTurns == 3        \* sendMessage calls (one WebSocket each)
MaxEvents == 4       \* socket events, fetch calls and persona changes
MaxRequests == 2     \* fetch calls among them
MaxChunks == 3       \* token events one reply is split into

\* ---------------------------------------------------------------- inputs
Null == 0
Fragments == { <<"a">>, <<"b">> }          \* data of a token event
SourceLists == { << <<"p">> >>, << >> }    \* data of a sources event: a
                                           \* list of file names
Queries == { <<"q">> }                     \* text typed by the user
Folders == { "all" }
Files == { "null" }
Personas == { "Steward", "Vault" }

\* WebSocket.readyState
CONNECTING == "CONNECTING"
OPEN == "OPEN"
CLOSED == "CLOSED"

VARIABLES
    isLoading,         \* ChatSlice.isLoading
    activeWebSocket,   \* ChatSlice.activeWebSocket (socket index or Null)
    chatHistory,       \* ChatSlice.chatHistory
    activePersona,     \* ChatSlice.activePersona
    chatSessions,      \* ChatSlice.chatSessions (the ids, newest first)
    currentSessionId,  \* ChatSlice.currentSessionId (id or Null)
    sockets,           \* every WebSocket sendMessage has constructed
    requests,          \* fetch calls that have not settled yet
    started,           \* number of fetch calls so far
    serverSessions,    \* the sessions the backend holds (newest first)
    delivered,         \* number of events counted by MaxEvents so far
    fault              \* an exception escaped a handler

vars == << isLoading, activeWebSocket, chatHistory, activePersona,
           chatSessions, currentSessionId, sockets, requests, started,
           serverSessions, delivered, fault >>

chat == << isLoading, activeWebSocket, chatHistory >>
sessions == << chatSessions, currentSessionId >>
http == << requests, started, serverSessions >>

\* -------------------------------------------------------------- strings
RECURSIVE Concat(_)
Concat(ss) == IF ss = << >> THEN << >> ELSE Head(ss) \o Concat(Tail(ss))

StartsAt(s, p, i) ==
    /\ i >= 1
    /\ i + Len(p) - 1 <= Len(s)
    /\ \A k \in 1..Len(p) : s[i + k - 1] = p[k]

IsSpace(c) == c \in { " ", "\n", "\t" }

\* String.prototype.trim
RECURSIVE TrimLeft(_)
TrimLeft(s) ==
    IF s # << >> /\ IsSpace(Head(s)) THEN TrimLeft(Tail(s)) ELSE s

RECURSIVE TrimRight(_)
TrimRight(s) ==
    IF s # << >> /\ IsSpace(s[Len(s)])
    THEN TrimRight(SubSeq(s, 1, Len(s) - 1)) ELSE s

Trim(s) == TrimRight(TrimLeft(s))

Min(S) == CHOOSE x \in S : \A y \in S : x <= y

\* ------------------------------------------------------------- messages
\* `turn` is not a field of Message: it records which sendMessage call
\* built the message (0: none), and no operation reads it.
NoSources == << >>
Msg(role, content, sources, persona, turn) ==
    [ role |-> role, content |-> content, sources |-> sources,
      persona |-> persona, turn |-> turn ]

SetLast(h, m) == [ h EXCEPT ![Len(h)] = m ]

\* a token branch that appends the accumulated text to the message instead
\* of replacing the message's text by it
TokenUpdateAppending(h, fullResponse) ==
    IF Len(h) > 0 /\ h[Len(h)].role = "assistant"
    THEN SetLast(h, [ h[Len(h)] EXCEPT !.content = @ \o fullResponse ])
    ELSE h

\* set(...) callback of the token branch
TokenUpdate(h, fullResponse) ==
    IF Len(h) > 0 /\ h[Len(h)].role = "assistant"
    THEN SetLast(h, [ h[Len(h)] EXCEPT !.content = fullResponse ])
    ELSE h

\* a sources branch that does not look at the role of the last message
SourcesUpdateAnyRole(h, data) ==
    IF Len(h) > 0
    THEN SetLast(h, [ h[Len(h)] EXCEPT !.sources = << data >> ])
    ELSE h

\* a sources branch that adds the event's list to the value already there
SourcesUpdateMerging(h, data) ==
    IF Len(h) > 0 /\ h[Len(h)].role = "assistant"
    THEN SetLast(h, [ h[Len(h)] EXCEPT !.sources = @ \o << data >> ])
    ELSE h

\* set(...) callback of the sources branch
SourcesUpdate(h, data) ==
    IF Len(h) > 0 /\ h[Len(h)].role = "assistant"
    THEN SetLast(h, [ h[Len(h)] EXCEPT !.sources = << data >> ])
    ELSE h

\* ---------------------------------------------------- parseMessageContent
SourcesOpen == << "<", "s", "o", "u", "r", "c", "e", "s", ">" >>
SourcesClose == << "<", "/", "s", "o", "u", "r", "c", "e", "s", ">" >>

\* /<sources>(.*?)<\/sources>$/s : the match starts at the leftmost
\* <sources> that the </sources> ending the string can close.  0: no match.
SourceMatch(s) ==
    LET e == Len(s) - Len(SourcesClose) + 1
        starts == { i \in 1..Len(s) :
                      StartsAt(s, SourcesOpen, i) /\ i + Len(SourcesOpen) <= e }
    IN  IF StartsAt(s, SourcesClose, e) /\ starts # { } THEN Min(starts) ELSE 0

\* JSON.parse of a text over letters, quotes, commas and brackets: a string
\* literal, or an array of string literals.  ok = FALSE: it throws.
JsonFail == [ ok |-> FALSE, value |-> << >> ]

RECURSIVE JsonItems(_, _, _)
JsonItems(s, i, acc) ==
    IF i > Len(s) \/ s[i] # "\"" THEN JsonFail
    ELSE LET quotes == { j \in (i + 1)..Len(s) : s[j] = "\"" }
         IN  IF quotes = { } THEN JsonFail
             ELSE LET j == Min(quotes)
                      item == SubSeq(s, i + 1, j - 1)
                  IN  IF j + 1 = Len(s) /\ s[j + 1] = "]"
                      THEN [ ok |-> TRUE, value |-> Append(acc, item) ]
                      ELSE IF j + 1 < Len(s) /\ s[j + 1] = ","
                      THEN JsonItems(s, j + 2, Append(acc, item))
                      ELSE JsonFail

JsonParse(s) ==
    IF s = << "[", "]" >> THEN [ ok |-> TRUE, value |-> << >> ]
    ELSE IF Len(s) >= 2 /\ s[1] = "[" THEN JsonItems(s, 2, << >>)
    ELSE IF /\ Len(s) >= 2 /\ s[1] = "\"" /\ s[Len(s)] = "\""
            /\ \A j \in 2..(Len(s) - 1) : s[j] # "\""
    THEN [ ok |-> TRUE, value |-> SubSeq(s, 2, Len(s) - 1) ]
    ELSE JsonFail

\* a parseMessageContent that, when JSON.parse throws, still removes the
\* block from the content
parseMessageContentDroppingBlock(msg) ==
    IF msg.content = << >> THEN msg
    ELSE LET m == SourceMatch(msg.content)
             group == SubSeq(msg.content, m + Len(SourcesOpen),
                             Len(msg.content) - Len(SourcesClose))
             cleanContent == Trim(SubSeq(msg.content, 1, m - 1))
         IN  IF m # 0 /\ group # << >>
             THEN LET parsed == JsonParse(group)
                  IN  IF parsed.ok
                      THEN [ msg EXCEPT !.content = cleanContent,
                                        !.sources = << parsed.value >> ]
                      ELSE [ msg EXCEPT !.content = cleanContent ]
             ELSE msg

\* a parseMessageContent whose pattern has no $: it takes the first block
\* wherever it stands
parseMessageContentUnanchored(msg) ==
    LET s == msg.content
        opens == { i \in 1..Len(s) : StartsAt(s, SourcesOpen, i) }
        o == Min(opens)
        closes == { j \in (o + Len(SourcesOpen))..Len(s) :
                      StartsAt(s, SourcesClose, j) }
        c == Min(closes)
        group == SubSeq(s, o + Len(SourcesOpen), c - 1)
    IN  IF opens = { } THEN msg
        ELSE IF closes = { } \/ group = << >> THEN msg
        ELSE IF JsonParse(group).ok
        THEN [ msg EXCEPT
                 !.content = Trim(SubSeq(s, 1, o - 1)
                                  \o SubSeq(s, c + Len(SourcesClose), Len(s))),
                 !.sources = << JsonParse(group).value >> ]
        ELSE msg

parseMessageContent(msg) ==
    IF msg.content = << >> THEN msg
    ELSE LET m == SourceMatch(msg.content)
             group == SubSeq(msg.content, m + Len(SourcesOpen),
                             Len(msg.content) - Len(SourcesClose))
         IN  IF m # 0 /\ group # << >>
             THEN LET parsed == JsonParse(group)
                  IN  IF parsed.ok
                      THEN [ msg EXCEPT
                               !.content = Trim(SubSeq(msg.content, 1, m - 1)),
                               !.sources = << parsed.value >> ]
                      ELSE msg
             ELSE msg

MapParse(msgs) == [ k \in 1..Len(msgs) |-> parseMessageContent(msgs[k]) ]

\* ------------------------------------------------- ChatBubble (parsing)
ThinkOpen == << "<", "t", "h", "i", "n", "k", ">" >>
ThinkClose == << "<", "/", "t", "h", "i", "n", "k", ">" >>

Max(S) == CHOOSE x \in S : \A y \in S : x >= y

\* String.prototype.indexOf: the 0-based position of the first occurrence
\* of p in s, or -1
IndexOf(s, p) ==
    LET hits == { i \in 1..Len(s) : StartsAt(s, p, i) }
    IN  IF hits = { } THEN -1 ELSE Min(hits) - 1

\* String.prototype.substring(a, b): both arguments are clamped to
\* 0..length and swapped when a > b
Substring(s, a, b) ==
    LET ca == Max({ 0, Min({ a, Len(s) }) })
        cb == Max({ 0, Min({ b, Len(s) }) })
    IN  SubSeq(s, Min({ ca, cb }) + 1, Max({ ca, cb }))

rawContent(message) == message.content
thinkStart(message) == IndexOf(rawContent(message), ThinkOpen)

\* a thinkEnd that looks for the last close marker (lastIndexOf)
thinkEndLast(message) ==
    LET hits == { i \in 1..Len(rawContent(message)) :
                    StartsAt(rawContent(message), ThinkClose, i) }
    IN  IF hits = { } THEN -1 ELSE Max(hits) - 1

thinkEnd(message) == IndexOf(rawContent(message), ThinkClose)

isThinkingActive(message, isLast, loading) ==
    thinkStart(message) # -1 /\ thinkEnd(message) = -1 /\ isLast /\ loading

thoughtContent(message) ==
    IF thinkStart(message) # -1
    THEN IF thinkEnd(message) # -1
         THEN Trim(Substring(rawContent(message), thinkStart(message) + 7,
                             thinkEnd(message)))
         ELSE Trim(Substring(rawContent(message), thinkStart(message) + 7,
                             Len(rawContent(message))))
    ELSE << >>

mainContent(message) ==
    IF thinkStart(message) # -1
    THEN IF thinkEnd(message) # -1
         THEN Trim(Substring(rawContent(message), thinkEnd(message) + 8,
                             Len(rawContent(message))))
         ELSE << >>
    ELSE rawContent(message)

\* String.prototype.split('\n'): the lines of s
RECURSIVE SplitLines(_)
SplitLines(s) ==
    LET breaks == { i \in 1..Len(s) : s[i] = "\n" }
    IN  IF breaks = { } THEN << s >>
        ELSE << SubSeq(s, 1, Min(breaks) - 1) >>
             \o SplitLines(SubSeq(s, Min(breaks) + 1, Len(s)))

ThinkingText == << "T", "h", "i", "n", "k", "i", "n", "g", ".", ".", "." >>

\* the lines the snippet is chosen from
SnippetLines(message) ==
    SelectSeq(SplitLines(thoughtContent(message)),
              LAMBDA line : Len(Trim(line)) > 0)

\* an activeSnippet that shows the first of the lines
activeSnippetFirstLine(message) ==
    IF thinkStart(message) # -1 /\ thinkEnd(message) = -1
          /\ Len(SnippetLines(message)) > 0
    THEN SnippetLines(message)[1]
    ELSE ThinkingText

activeSnippet(message) ==
    IF thinkStart(message) # -1 /\ thinkEnd(message) = -1
          /\ Len(SnippetLines(message)) > 0
    THEN SnippetLines(message)[Len(SnippetLines(message))]
    ELSE ThinkingText

\* ------------------------------------------------------------ the backend
\* What /api/chat/history/<sid> answers: the stored record of each message
\* is its text, followed by the <sources> block when it has sources.  The
\* backend's own writes are not modelled: a session's record is fixed.
\* A user message is stored as the text the user typed, which in session 2
\* ends with a <sources> block.
InitialServerSessions == << 2, 1 >>

SourcesBlock == SourcesOpen \o << "[", "\"", "d", "\"", "]" >> \o SourcesClose

Stored(sid) ==
    IF sid = 1
    THEN << Msg("user", << "q" >>, NoSources, "User", 0),
            Msg("assistant", << "a" >> \o SourcesBlock, NoSources,
                "Steward", 0) >>
    ELSE IF sid = 2
    THEN << Msg("user", << "q" >>, NoSources, "User", 0),
            Msg("assistant", << "b" >>, NoSources, "Steward", 0),
            Msg("user", << "q" >> \o SourcesBlock, NoSources, "User", 0) >>
    ELSE << >>

\* the id the backend gives the session that request r creates
NewSessionId(r) == Len(InitialServerSessions) + r.id

\* -------------------------------------------------------------- sockets
\* request: the values the handlers' closure captured; outbox: the frames
\* passed to ws.send.  The other fields record what happened to the socket
\* and are read by no handler: arrived (the token fragments handed to
\* onmessage, in arrival order), opened (the open event fired), errored
\* (the error event fired), ended (the peer closed the connection),
\* cancelled (stopGeneration closed it) and finished (its done event was
\* handled).

\* a socket whose request frame is sent right after construction
NewSocketSendingAtOnce(req) ==
    [ readyState |-> CONNECTING, request |-> req, fullResponse |-> << >>,
      outbox |-> << req >>, arrived |-> << >>, opened |-> FALSE,
      errored |-> FALSE, ended |-> FALSE, cancelled |-> FALSE,
      finished |-> FALSE ]

NewSocket(req) ==
    [ readyState |-> CONNECTING, request |-> req, fullResponse |-> << >>,
      outbox |-> << >>, arrived |-> << >>, opened |-> FALSE,
      errored |-> FALSE, ended |-> FALSE, cancelled |-> FALSE,
      finished |-> FALSE ]

\* ws.close()
Close(ss, i) == [ ss EXCEPT ![i].readyState = CLOSED ]

Init ==
    /\ isLoading = FALSE
    /\ activeWebSocket = Null
    /\ chatHistory = << >>
    /\ activePersona = "Steward"
    /\ chatSessions = << >>
    /\ currentSessionId = Null
    /\ sockets = << >>
    /\ requests = { }
    /\ started = 0
    /\ serverSessions = InitialServerSessions
    /\ delivered = 0
    /\ fault = FALSE

Fires == delivered < MaxEvents /\ delivered' = delivered + 1

\* ----------------------------------------------------------- operations
SetPersona(p) ==
    /\ p # activePersona
    /\ Fires
    /\ activePersona' = p
    /\ UNCHANGED << chat, sessions, sockets, http, fault >>

\* the sockets after stopGeneration's ws.close()
StopSockets(ss, ws) ==
    IF ws # Null THEN [ Close(ss, ws) EXCEPT ![ws].cancelled = TRUE ] ELSE ss

\* stopGeneration that also clears the text streamed so far
StopGenerationRollback ==
    /\ sockets' = StopSockets(sockets, activeWebSocket)
    /\ isLoading' = FALSE
    /\ activeWebSocket' = Null
    /\ chatHistory' = TokenUpdate(chatHistory, << >>)
    /\ UNCHANGED << activePersona, sessions, http, delivered, fault >>

\* stopGeneration without the `if (ws)` guard: ws.close() on null throws
StopGenerationUnguarded ==
    /\ IF activeWebSocket # Null
       THEN /\ sockets' = StopSockets(sockets, activeWebSocket)
            /\ isLoading' = FALSE
            /\ activeWebSocket' = Null
            /\ UNCHANGED fault
       ELSE /\ fault' = TRUE
            /\ UNCHANGED << sockets, isLoading, activeWebSocket >>
    /\ UNCHANGED << chatHistory, activePersona, sessions, http, delivered >>

StopGeneration ==
    /\ sockets' = StopSockets(sockets, activeWebSocket)
    /\ isLoading' = FALSE
    /\ activeWebSocket' = Null
    /\ UNCHANGED << chatHistory, activePersona, sessions, http, delivered,
                    fault >>

\* sendMessage has no await and runs to completion in one step; h is the
\* message list it finds.
SendMessage(h, sessionId, content, folder, file) ==
    /\ Len(sockets) < MaxTurns
    /\ LET id == Len(sockets) + 1
           currentPersona == activePersona
           userMsg == Msg("user", content, NoSources, "User", id)
           botMsg == Msg("assistant", << >>, NoSources, currentPersona, id)
           req == [ session_id |-> sessionId, query |-> content,
                    folder |-> folder, file |-> file,
                    persona |-> currentPersona ]
       IN  /\ chatHistory' = h \o << userMsg, botMsg >>
           /\ sockets' = Append(StopSockets(sockets, activeWebSocket),
                                NewSocket(req))
           /\ isLoading' = TRUE
           /\ activeWebSocket' = id
    /\ UNCHANGED << activePersona, fault >>

\* fetch(...) is called: the request is in flight
Fetch(kind, sid, send) ==
    /\ Fires
    /\ started < MaxRequests
    /\ started' = started + 1
    /\ requests' = requests \cup
           { [ id |-> started + 1, kind |-> kind, sid |-> sid,
               send |-> send ] }
    /\ UNCHANGED serverSessions

\* ChatInput.handleSend
HandleSend(content, folder, file) ==
    IF currentSessionId # Null
    THEN /\ SendMessage(chatHistory, currentSessionId, content, folder, file)
         /\ UNCHANGED << sessions, http, delivered >>
    ELSE /\ Fetch("createSession", Null,
                  << [ content |-> content, folder |-> folder,
                       file |-> file ] >>)
         /\ UNCHANGED << chat, activePersona, sessions, sockets, fault >>

\* createSession up to its await (Sidebar.handleNewChat, MobileNav)
CreateSession ==
    /\ Fetch("createSession", Null, << >>)
    /\ UNCHANGED << chat, activePersona, sessions, sockets, fault >>

\* fetchHistory up to its await
FetchHistory(sid) ==
    /\ Fetch("fetchHistory", sid, << >>)
    /\ isLoading' = TRUE

SetCurrentSession(id) ==
    /\ currentSessionId' = id
    /\ FetchHistory(id)
    /\ UNCHANGED << activeWebSocket, chatHistory, activePersona, chatSessions,
                    sockets, fault >>

\* deleteSession up to its await
DeleteSession(sessionId) ==
    /\ Fetch("deleteSession", sessionId, << >>)
    /\ UNCHANGED << chat, activePersona, sessions, sockets, fault >>

\* fetchSessions up to its await
FetchSessions ==
    /\ Fetch("fetchSessions", Null, << >>)
    /\ UNCHANGED << chat, activePersona, sessions, sockets, fault >>

\* ------------------------------------------------- the requests settle
Settled(r) == requests' = requests \ { r }

\* fetchHistory after its await; ok = FALSE: fetch or res.json() rejects
FetchHistoryDone(r, ok) ==
    /\ r.kind = "fetchHistory"
    /\ chatHistory' = IF ok THEN MapParse(Stored(r.sid)) ELSE chatHistory
    /\ isLoading' = FALSE
    /\ Settled(r)
    /\ UNCHANGED << activeWebSocket, activePersona, sessions, sockets,
                    started, serverSessions, delivered, fault >>

\* createSession after its await, and the rest of handleSend when it was
\* the caller: no other handler runs between the two.
CreateSessionDone(r, ok) ==
    /\ r.kind = "createSession"
    /\ Settled(r)
    /\ UNCHANGED << started, delivered >>
    /\ IF ok
       THEN LET id == NewSessionId(r)
            IN  /\ serverSessions' = << id >> \o serverSessions
                /\ chatSessions' = << id >> \o chatSessions
                /\ currentSessionId' = id
                /\ IF r.send # << >>
                   THEN SendMessage(<< >>, id, r.send[1].content,
                                    r.send[1].folder, r.send[1].file)
                   ELSE /\ chatHistory' = << >>
                        /\ UNCHANGED << isLoading, activeWebSocket,
                                        activePersona, sockets, fault >>
       ELSE UNCHANGED << chat, activePersona, sessions, sockets,
                         serverSessions, fault >>

Without(seq, x) == SelectSeq(seq, LAMBDA y : y # x)

\* deleteSession after its await
DeleteSessionDone(r, ok) ==
    /\ r.kind = "deleteSession"
    /\ UNCHANGED started
    /\ IF ok
       THEN LET newSessions == Without(chatSessions, r.sid)
                newCurrentId ==
                    IF currentSessionId = r.sid
                    THEN (IF Len(newSessions) > 0 THEN newSessions[1] ELSE Null)
                    ELSE currentSessionId
                refetch == currentSessionId = r.sid /\ newCurrentId # Null
            IN  /\ serverSessions' = Without(serverSessions, r.sid)
                /\ chatSessions' = newSessions
                /\ currentSessionId' = newCurrentId
                /\ chatHistory' =
                       IF currentSessionId = r.sid /\ newCurrentId = Null
                       THEN << >> ELSE chatHistory
                /\ IF refetch
                   THEN /\ isLoading' = TRUE
                        /\ requests' = (requests \ { r }) \cup
                               { [ r EXCEPT !.kind = "fetchHistory",
                                            !.sid = newCurrentId ] }
                   ELSE /\ Settled(r)
                        /\ UNCHANGED isLoading
                /\ UNCHANGED << activeWebSocket, activePersona, sockets,
                                delivered, fault >>
       ELSE /\ Settled(r)
            /\ UNCHANGED << chat, activePersona, sessions, sockets,
                            serverSessions, delivered, fault >>

\* fetchSessions after its await
FetchSessionsDone(r, ok) ==
    /\ r.kind = "fetchSessions"
    /\ chatSessions' = IF ok THEN serverSessions ELSE chatSessions
    /\ Settled(r)
    /\ UNCHANGED << chat, activePersona, currentSessionId, sockets,
                    started, serverSessions, delivered, fault >>

\* ------------------------------------------------------ socket handlers
\* ws.onopen
OnOpen(i) ==
    /\ sockets[i].readyState = CONNECTING
    /\ Fires
    /\ sockets' = [ sockets EXCEPT ![i].readyState = OPEN,
                                   ![i].opened = TRUE,
                                   ![i].outbox = Append(@, sockets[i].request) ]
    /\ UNCHANGED << chat, activePersona, sessions, http, fault >>

\* The connection of socket i can still produce an event: it has neither
\* failed nor been closed by the peer.
Connected(i) == ~ sockets[i].errored /\ ~ sockets[i].ended

\* A message event reaches the handlers of any socket the server has
\* answered: the handlers stay installed after close(), so a frame that
\* was in flight when the store closed the socket is handled like any
\* other.
Delivers(i) == sockets[i].opened /\ Connected(i) /\ Fires

\* a token branch that shows the fragment just received instead of the
\* accumulated text
TokenLatestOnly(i, data) ==
    /\ sockets' = [ sockets EXCEPT ![i].fullResponse = @ \o data,
                                   ![i].arrived = Append(@, data) ]
    /\ chatHistory' = TokenUpdate(chatHistory, data)
    /\ UNCHANGED << isLoading, activeWebSocket, activePersona, sessions,
                    http, fault >>

\* the token branch of ws.onmessage
Token(i, data) ==
    /\ LET fullResponse == sockets[i].fullResponse \o data
       IN  /\ sockets' = [ sockets EXCEPT ![i].fullResponse = fullResponse,
                                          ![i].arrived = Append(@, data) ]
           /\ chatHistory' = TokenUpdate(chatHistory, fullResponse)
    /\ UNCHANGED << isLoading, activeWebSocket, activePersona, sessions,
                    http, fault >>

\* ws.onmessage, data.type === 'token'
OnToken(i, data) == Delivers(i) /\ Token(i, data)

\* ws.onmessage, data.type === 'sources'
OnSources(i, data) ==
    /\ Delivers(i)
    /\ chatHistory' = SourcesUpdate(chatHistory, data)
    /\ UNCHANGED << isLoading, activeWebSocket, activePersona, sessions,
                    sockets, http, fault >>

\* a done branch that closes the socket and forgets it, but leaves
\* isLoading as it is
OnDoneStillLoading(i) ==
    /\ Delivers(i)
    /\ sockets' = [ Close(sockets, i) EXCEPT ![i].finished = TRUE ]
    /\ activeWebSocket' = Null
    /\ UNCHANGED << isLoading, chatHistory, activePersona, sessions, http,
                    fault >>

\* ws.onmessage, data.type === 'done'
OnDone(i) ==
    /\ Delivers(i)
    /\ sockets' = [ Close(sockets, i) EXCEPT ![i].finished = TRUE ]
    /\ isLoading' = FALSE
    /\ activeWebSocket' = Null
    /\ UNCHANGED << chatHistory, activePersona, sessions, http, fault >>

\* ws.onmessage, a frame of any other type: no branch is taken
OnOther(i) ==
    /\ Delivers(i)
    /\ UNCHANGED << chat, activePersona, sessions, sockets, http, fault >>

\* ws.onmessage, a frame that is not JSON: JSON.parse throws
OnMalformed(i) ==
    /\ Delivers(i)
    /\ fault' = TRUE
    /\ UNCHANGED << chat, activePersona, sessions, sockets, http >>

\* an onerror that also writes a notice into the last assistant message
OnErrorWritingNotice(i) ==
    /\ Connected(i)
    /\ Fires
    /\ sockets' = [ sockets EXCEPT ![i].errored = TRUE,
                                   ![i].readyState = CLOSED ]
    /\ isLoading' = FALSE
    /\ activeWebSocket' = Null
    /\ chatHistory' = TokenUpdate(chatHistory, << "E", "r", "r", "o", "r" >>)
    /\ UNCHANGED << activePersona, sessions, http, fault >>

\* ws.onerror.  The browser fires error when the connection fails, which
\* includes a connection that close() aborted: at most once per socket,
\* and the socket is closed afterwards.
OnError(i) ==
    /\ Connected(i)
    /\ Fires
    /\ sockets' = [ sockets EXCEPT ![i].errored = TRUE,
                                   ![i].readyState = CLOSED ]
    /\ isLoading' = FALSE
    /\ activeWebSocket' = Null
    /\ UNCHANGED << chatHistory, activePersona, sessions, http, fault >>

\* The peer closes an established connection: the browser fires close and
\* no error.  The socket has no onclose handler: nothing in the store runs.
OnClose(i) ==
    /\ sockets[i].readyState = OPEN
    /\ Fires
    /\ sockets' = [ sockets EXCEPT ![i].readyState = CLOSED,
                                   ![i].ended = TRUE ]
    /\ UNCHANGED << chat, activePersona, sessions, http, fault >>

\* ----------------------------------------------------------------- Next
Next ==
    \/ \E p \in Personas : SetPersona(p)
    \/ StopGeneration
    \/ \E q \in Queries, fo \in Folders, fi \in Files : HandleSend(q, fo, fi)
    \/ CreateSession
    \/ \E k \in 1..Len(chatSessions) : SetCurrentSession(chatSessions[k])
    \/ \E k \in 1..Len(chatSessions) : DeleteSession(chatSessions[k])
    \/ FetchSessions
    \/ \E r \in requests, ok \in BOOLEAN : FetchHistoryDone(r, ok)
    \/ \E r \in requests, ok \in BOOLEAN : CreateSessionDone(r, ok)
    \/ \E r \in requests, ok \in BOOLEAN : DeleteSessionDone(r, ok)
    \/ \E r \in requests, ok \in BOOLEAN : FetchSessionsDone(r, ok)
    \/ \E i \in 1..Len(sockets) : OnOpen(i)
    \/ \E i \in 1..Len(sockets), d \in Fragments : OnToken(i, d)
    \/ \E i \in 1..Len(sockets), s \in SourceLists : OnSources(i, s)
    \/ \E i \in 1..Len(sockets) : OnDone(i)
    \/ \E i \in 1..Len(sockets) : OnOther(i)
    \/ \E i \in 1..Len(sockets) : OnMalformed(i)
    \/ \E i \in 1..Len(sockets) : OnError(i)
    \/ \E i \in 1..Len(sockets) : OnClose(i)

Spec == Init /\ [][Next]_vars

\* A fetch settles: its promise is resolved or rejected, and the code after
\* the await runs.  Nothing obliges the user to act or a socket to deliver
\* an event.
Settles ==
    \E r \in requests, ok \in BOOLEAN :
        \/ FetchHistoryDone(r, ok)
        \/ CreateSessionDone(r, ok)
        \/ DeleteSessionDone(r, ok)
        \/ FetchSessionsDone(r, ok)

FairSpec == Spec /\ WF_vars(Settles)

\* The state once the sidebar has loaded the sessions and the user has
\* selected session 2, whose history has arrived: what fetchSessions and
\* setCurrentSession(2) leave when their requests have resolved.  The
\* counters start from here.
LoadedInit ==
    /\ isLoading = FALSE
    /\ activeWebSocket = Null
    /\ chatHistory = MapParse(Stored(2))
    /\ activePersona = "Steward"
    /\ chatSessions = InitialServerSessions
    /\ currentSessionId = 2
    /\ sockets = << >>
    /\ requests = { }
    /\ started = 0
    /\ serverSessions = InitialServerSessions
    /\ delivered = 0
    /\ fault = FALSE

LoadedSpec == LoadedInit /\ [][Next]_vars

\* ------------------------------------------------- one reply, streamed
\* The texts the backend streams for a turn: a reasoning block between
\* other text, one whose body is set off by white space, one that is cut
\* off inside the block, one followed by further marker text, one without
\* a block, one with a close marker and no open marker, one whose close
\* marker comes before its open marker, and one whose block has several
\* lines, an empty one among them.
Replies ==
    { << "a" >> \o ThinkOpen \o << "b" >> \o ThinkClose \o << "c" >>,
      ThinkOpen \o << " ", "b", "\n" >> \o ThinkClose \o << "\n", "c" >>,
      ThinkOpen \o << "b", "\n" >>,
      ThinkOpen \o << "b", " " >> \o ThinkClose \o << "c" >>
                \o ThinkOpen \o << "d" >> \o ThinkClose,
      << "a", "c" >>,
      << "a" >> \o ThinkClose \o << "b" >>,
      ThinkClose \o << "a" >> \o ThinkOpen \o << "b" >>,
      ThinkOpen \o << "b", "\n", "\n", " ", "c", "\n" >> }

StreamRequest ==
    [ session_id |-> NewSessionId([ id |-> 1 ]), query |-> << "q" >>,
      folder |-> "all", file |-> "null", persona |-> "Steward" ]

\* The state after handleSend('q') with no session selected, once the
\* session is created and the socket has opened.  `reply` is the text the
\* backend is going to stream; no handler reads it.
StreamInit ==
    /\ isLoading = TRUE
    /\ activeWebSocket = 1
    /\ chatHistory =
           << Msg("user", << "q" >>, NoSources, "User", 1),
              Msg("assistant", << >>, NoSources, "Steward", 1) >>
    /\ activePersona = "Steward"
    /\ chatSessions = << StreamRequest.session_id >>
    /\ currentSessionId = StreamRequest.session_id
    /\ \E text \in Replies :
           sockets = << [ NewSocket(StreamRequest) EXCEPT
                            !.readyState = OPEN, !.opened = TRUE,
                            !.outbox = << StreamRequest >> ]
                        @@ [ reply |-> text ] >>
    /\ requests = { }
    /\ started = 1
    /\ serverSessions = << StreamRequest.session_id >> \o InitialServerSessions
    /\ delivered = 2
    /\ fault = FALSE

\* the next token event carries the next `size` characters of the reply
Chunk(size) ==
    /\ Connected(1) /\ ~ sockets[1].finished
    /\ Len(sockets[1].arrived) < MaxChunks
    /\ Len(sockets[1].fullResponse) + size <= Len(sockets[1].reply)
    /\ Token(1, SubSeq(sockets[1].reply, Len(sockets[1].fullResponse) + 1,
                       Len(sockets[1].fullResponse) + size))
    /\ UNCHANGED delivered

StreamNext ==
    \/ \E size \in 1..Max({ Len(text) : text \in Replies }) : Chunk(size)
    \/ OnDone(1)

StreamSpec == StreamInit /\ [][StreamNext]_vars

\* ------------------------------------------------ stored and read back
\* The source list of a message: none when the field is absent.
SourceList(m) == IF m.sources = NoSources THEN << >> ELSE m.sources[1]

\* JSON text of a list of file names
RECURSIVE JsonArrayItems(_)
JsonArrayItems(list) ==
    IF list = << >> THEN << >>
    ELSE << "\"" >> \o Head(list) \o << "\"" >>
         \o (IF Len(list) > 1 THEN << "," >> ELSE << >>)
         \o JsonArrayItems(Tail(list))

JsonArray(list) == << "[" >> \o JsonArrayItems(list) \o << "]" >>

\* The string the backend stores for a message: the content, followed by
\* the <sources> block when the source list is not empty.
encode(m) ==
    [ m EXCEPT !.content =
                   IF SourceList(m) # << >>
                   THEN @ \o SourcesOpen \o JsonArray(SourceList(m))
                          \o SourcesClose
                   ELSE @,
               !.sources = NoSources ]

\* contents of up to three characters, white space among them, and source
\* lists of up to two file names
CodecContents ==
    { << >> } \cup { << c >> : c \in { "a", " ", "\n" } }
              \cup { << c, d >> : c, d \in { "a", " ", "\n" } }
              \cup { << c, d, e >> : c, d, e \in { "a", " ", "\n" } }
CodecSources ==
    { NoSources, << << >> >>, << << <<"p">> >> >>,
      << << <<"p">>, <<"d">> >> >> }

CodecInit ==
    /\ isLoading = FALSE
    /\ activeWebSocket = Null
    /\ \E role \in { "user", "assistant" }, content \in CodecContents,
          srcs \in CodecSources :
           chatHistory = << Msg(role, content, srcs, "Steward", 0) >>
    /\ activePersona = "Steward"
    /\ chatSessions = InitialServerSessions
    /\ currentSessionId = 2
    /\ sockets = << >>
    /\ requests = { }
    /\ started = 0
    /\ serverSessions = InitialServerSessions
    /\ delivered = 0
    /\ fault = FALSE

\* The messages are stored by the backend and read back by fetchHistory.
Reload ==
    /\ chatHistory' =
           MapParse([ k \in 1..Len(chatHistory) |-> encode(chatHistory[k]) ])
    /\ UNCHANGED << isLoading, activeWebSocket, activePersona, sessions,
                    sockets, http, delivered, fault >>

CodecSpec == CodecInit /\ [][Reload]_vars

\* ----------------------------------------------------------- properties
Sockets == 1..Len(sockets)
IsOpen(i) == sockets[i].readyState # CLOSED
LastMsg == chatHistory[Len(chatHistory)]

\* the step is the token, the sources or any message handler of socket i
TokenStep(i) == \E d \in Fragments : OnToken(i, d)
SourcesStep(i) == \E s \in SourceLists : OnSources(i, s)
SocketStep(i) ==
    \/ OnOpen(i) \/ TokenStep(i) \/ SourcesStep(i) \/ OnDone(i)
    \/ OnOther(i) \/ OnMalformed(i) \/ OnError(i) \/ OnClose(i)

\* C1: at any instant at most one WebSocket opened by sendMessage is open
\* (connecting or connected).
AtMostOneOpenSocket == Cardinality({ i \in Sockets : IsOpen(i) }) <= 1

\* C2: once stopGeneration has closed a socket, a token or done event of
\* that socket changes neither chatHistory nor isLoading nor
\* activeWebSocket.
CancelledSocketEventsIgnored ==
    [][ \A i \in Sockets :
          sockets[i].cancelled /\ (TokenStep(i) \/ OnDone(i))
              => UNCHANGED << chatHistory, isLoading, activeWebSocket >> ]_vars

\* C3: a token or sources event of a socket changes no message that a
\* later sendMessage call built.
EarlierTurnEventsNotApplied ==
    [][ \A i \in Sockets :
          TokenStep(i) \/ SourcesStep(i)
              => \A k \in 1..Len(chatHistory) :
                     chatHistory[k].turn > i
                         => /\ k <= Len(chatHistory')
                            /\ chatHistory'[k] = chatHistory[k] ]_vars

\* C4: stopGeneration leaves chatHistory as it is: the streamed content and
\* sources of the assistant message stay, nothing is added, no other
\* message changes.
StopGenerationKeepsHistory ==
    [][ StopGeneration => chatHistory' = chatHistory ]_vars

\* stopGeneration has closed the socket of a turn that had streamed text
\* and sources, and the assistant message still holds both
StoppedWithPartialContent ==
    \E i \in Sockets :
        /\ sockets[i].cancelled /\ activeWebSocket = Null
        /\ Len(chatHistory) > 0
        /\ LastMsg.turn = i
        /\ LastMsg.content = sockets[i].fullResponse
        /\ LastMsg.content # << >>
        /\ LastMsg.sources # NoSources

\* C5: stopGeneration raises nothing and ends with isLoading false and
\* activeWebSocket null, the messages as they were, and, when there is no
\* socket to close, the sockets as they were; called in the state a first
\* call has left, it changes nothing at all.
StopGenerationIdempotent ==
    [][ StopGeneration
            => /\ ~ isLoading' /\ activeWebSocket' = Null
               /\ fault' = fault
               /\ chatHistory' = chatHistory
               /\ activeWebSocket = Null => sockets' = sockets
               /\ ~ isLoading /\ activeWebSocket = Null
                      => UNCHANGED vars ]_vars

\* the state a first stopGeneration has left in the middle of a stream: the
\* only socket is closed by it, nothing is loading, no socket is active
StoppedOnce ==
    /\ Len(sockets) = 1
    /\ sockets[1].cancelled /\ ~ sockets[1].errored /\ ~ sockets[1].finished
    /\ sockets[1].arrived # << >>
    /\ ~ isLoading /\ activeWebSocket = Null
    /\ ~ fault

\* C6: when the token handler of a socket that stopGeneration has not
\* closed has run, and the assistant message of its turn is the last
\* message, the content of that message is the concatenation of all token
\* fragments the socket has delivered, in arrival order.
TokensAccumulateInOrder ==
    [][ \A i \in Sockets :
          /\ TokenStep(i)
          /\ ~ sockets[i].cancelled
          /\ Len(chatHistory) > 0 /\ LastMsg.turn = i
          /\ LastMsg.role = "assistant"
          => /\ Len(chatHistory') = Len(chatHistory)
             /\ chatHistory'[Len(chatHistory')].content
                    = Concat(sockets'[i].arrived) ]_vars

\* two different fragments have been streamed into the assistant message
\* of a running turn
TwoTokensStreamed ==
    \E i \in Sockets :
        /\ ~ sockets[i].cancelled /\ activeWebSocket = i
        /\ sockets[i].arrived = << << "a" >>, << "b" >> >>
        /\ LastMsg.turn = i
        /\ LastMsg.content = << "a", "b" >>

\* C7: sendMessage appends, to the list it finds, one user message with
\* the given text and then one assistant message with empty content, and
\* changes no earlier message; a socket event keeps the length of the list
\* and every message but the last, and changes the last only if it is an
\* assistant message.
IsTurnPair(u, b, i) ==
    /\ u.role = "user" /\ u.content = sockets'[i].request.query
    /\ u.sources = NoSources /\ u.turn = i
    /\ b.role = "assistant" /\ b.content = << >>
    /\ b.sources = NoSources /\ b.turn = i

\* the step constructs a socket: sendMessage has run
SendsMessage == Len(sockets') = Len(sockets) + 1

\* the list sendMessage finds: createSession has emptied it when the step
\* also selects the session it created
Found == IF currentSessionId' = currentSessionId THEN chatHistory ELSE << >>

FrameSentOnceOnOpen ==
    \A i \in Sockets :
        /\ sockets[i].outbox =
               IF sockets[i].opened THEN << sockets[i].request >> ELSE << >>
        /\ \A k \in 1..Len(chatHistory) :
               chatHistory[k].turn = i
                   => IF chatHistory[k].role = "user"
                      THEN chatHistory[k].content = sockets[i].request.query
                      ELSE chatHistory[k].persona = sockets[i].request.persona

\* a socket has opened and sent its frame, with the persona of its turn,
\* after the active persona changed, and has delivered a message since
FrameSentThenStreamed ==
    \E i \in Sockets :
        /\ sockets[i].opened
        /\ sockets[i].outbox = << sockets[i].request >>
        /\ sockets[i].request.persona # activePersona
        /\ sockets[i].arrived # << >>

\* C9: once the done event of a socket has been handled, a further token,
\* sources or done event of that socket changes neither chatHistory nor
\* isLoading nor activeWebSocket, and raises nothing.
EventsAfterDoneIgnored ==
    [][ \A i \in Sockets :
          /\ sockets[i].finished
          /\ TokenStep(i) \/ SourcesStep(i) \/ OnDone(i)
          => UNCHANGED << chatHistory, isLoading, activeWebSocket, fault >> ]_vars

\* C10: when the peer has closed the connection of the turn in flight
\* before its done event, then eventually isLoading is false and
\* activeWebSocket is null.
AbruptCloseEndsTurn ==
    (activeWebSocket # Null /\ sockets[activeWebSocket].ended)
        ~> (~ isLoading /\ activeWebSocket = Null)

\* C11: a frame that is not JSON, or whose type is none of token, sources
\* and done, ends the turn in flight: its socket is closed, isLoading is
\* false, activeWebSocket is null, and no exception escapes the handler.
MalformedFrameEndsTurn ==
    [][ \A i \in Sockets :
          activeWebSocket = i /\ (OnOther(i) \/ OnMalformed(i))
              => /\ ~ IsOpen(i)'
                 /\ ~ isLoading' /\ activeWebSocket' = Null
                 /\ fault' = fault ]_vars

\* the turn of socket i is in flight and its assistant message is the last
\* message
Streaming(i) ==
    /\ activeWebSocket = i
    /\ Len(chatHistory) > 0
    /\ LastMsg.turn = i /\ LastMsg.role = "assistant"

\* C12: a sources event of the turn in flight sets the sources of the
\* turn's assistant message to the event's list, whatever they were,
\* changes neither that message's content nor any other message, and
\* applied again to the result changes nothing.
SourcesLastWriteWins ==
    [][ \A i \in Sockets, s \in SourceLists :
          Streaming(i) /\ OnSources(i, s)
              => /\ chatHistory' =
                        SetLast(chatHistory,
                                [ LastMsg EXCEPT !.sources = << s >> ])
                 /\ SourcesUpdate(chatHistory', s) = chatHistory' ]_vars

\* the sources of a turn in flight have been set before its first token
SourcesBeforeFirstToken ==
    \E i \in Sockets :
        /\ Streaming(i)
        /\ sockets[i].arrived = << >>
        /\ LastMsg.content = << >>
        /\ LastMsg.sources = << << <<"p">> >> >>

\* C13: a sources event of a socket whose turn has ended (its done event
\* was handled, or stopGeneration closed it), arriving while no turn is
\* active, changes no message and raises nothing.
SourcesWithoutTurnIgnored ==
    [][ \A i \in Sockets, s \in SourceLists :
          /\ activeWebSocket = Null
          /\ sockets[i].finished \/ sockets[i].cancelled
          /\ OnSources(i, s)
          => chatHistory' = chatHistory /\ fault' = fault ]_vars

\* C14: no message with role user carries a sources list, and no token or
\* sources event changes a message with role user.
OnlyAssistantCarriesSources ==
    /\ [] \A k \in 1..Len(chatHistory) :
              chatHistory[k].role = "user"
                  => chatHistory[k].sources = NoSources
    /\ [][ \A i \in Sockets :
             TokenStep(i) \/ SourcesStep(i)
                 => \A k \in 1..Len(chatHistory) :
                        chatHistory[k].role = "user"
                            => chatHistory'[k] = chatHistory[k] ]_vars

\* the streamed reply's socket, and the message that one token event
\* carrying the whole reply leaves
Reply == sockets[1].reply
Whole == TokenUpdate(chatHistory, Reply)[Len(chatHistory)]

\* C15: when the token events delivered add up to the reply, however it
\* was split, the visible answer and the reasoning body of the assistant
\* message are those of the reply delivered in one token event.
ChunkingInvariance ==
    Concat(sockets[1].arrived) = Reply
        => /\ mainContent(LastMsg) = mainContent(Whole)
           /\ thoughtContent(LastMsg) = thoughtContent(Whole)

\* a reply has arrived in three token events, the first ending inside the
\* open marker and the second inside the close marker, and its reasoning
\* body and visible answer are both shown
SplitInsideMarkers ==
    /\ Len(sockets[1].arrived) = 3
    /\ Concat(sockets[1].arrived) = Reply
    /\ thinkStart(Whole) = 0
    /\ Len(sockets[1].arrived[1]) < 7
    /\ Len(sockets[1].arrived[1]) + Len(sockets[1].arrived[2]) > thinkEnd(Whole)
    /\ Len(sockets[1].arrived[1]) + Len(sockets[1].arrived[2])
           < thinkEnd(Whole) + 8
    /\ thoughtContent(LastMsg) = << "b" >>
    /\ mainContent(LastMsg) = << "c" >>

\* C16: the visible answer is the streamed text with the closed reasoning
\* block removed: all of the text while it holds no open marker, and the
\* text before the open marker followed by the text after the close marker
\* once the block is closed (compared up to the white space at both ends,
\* which the component trims).
VisibleAnswerIsTextOutsideBlock ==
    LET text == LastMsg.content
        open == thinkStart(LastMsg)
        close == thinkEnd(LastMsg)
    IN  /\ open = -1 => mainContent(LastMsg) = text
        /\ open # -1 /\ close > open
               => mainContent(LastMsg) =
                      Trim(Substring(text, 0, open)
                           \o Substring(text, close + 8, Len(text)))

IsPrefix(a, b) == Len(a) <= Len(b) /\ SubSeq(b, 1, Len(a)) = a
TokenArrives == \E size \in 1..Len(Reply) : Chunk(size)

\* the reasoning block of message m is open, or closed
BlockOpen(m) == thinkStart(m) # -1 /\ thinkEnd(m) = -1
BlockClosed(m) == thinkStart(m) # -1 /\ thinkEnd(m) > thinkStart(m)

\* C17 as stated: while the open marker is there and the close marker is
\* not, nothing is visible; the token that brings the close marker makes
\* the reasoning body exactly the text between the two markers; from then
\* on a token leaves the reasoning body as it is and only extends the
\* visible answer.
ReasoningSplitExact ==
    [][ TokenArrives
            => /\ BlockOpen(LastMsg) => mainContent(LastMsg) = << >>
               /\ thinkEnd(LastMsg) = -1 /\ BlockClosed(LastMsg')
                      => thoughtContent(LastMsg') =
                             Substring(LastMsg'.content,
                                       thinkStart(LastMsg') + 7,
                                       thinkEnd(LastMsg'))
               /\ BlockClosed(LastMsg)
                      => /\ thoughtContent(LastMsg') = thoughtContent(LastMsg)
                         /\ IsPrefix(mainContent(LastMsg),
                                     mainContent(LastMsg')) ]_vars

\* C17 as amended: the same, the reasoning body being the text between the
\* two markers without the white space at its ends.
ReasoningSplitTrimmed ==
    [][ TokenArrives
            => /\ BlockOpen(LastMsg) => mainContent(LastMsg) = << >>
               /\ thinkEnd(LastMsg) = -1 /\ BlockClosed(LastMsg')
                      => thoughtContent(LastMsg') =
                             Trim(Substring(LastMsg'.content,
                                            thinkStart(LastMsg') + 7,
                                            thinkEnd(LastMsg')))
               /\ BlockClosed(LastMsg)
                      => /\ thoughtContent(LastMsg') = thoughtContent(LastMsg)
                         /\ IsPrefix(mainContent(LastMsg),
                                     mainContent(LastMsg')) ]_vars

\* a block whose body ends with white space was closed by the second token
\* event, and the third, bringing further marker text, extended the
\* visible answer and left the body as it was
SplitKeptAfterClose ==
    /\ Len(sockets[1].arrived) = 3
    /\ Concat(sockets[1].arrived) = Reply
    /\ BlockClosed([ LastMsg EXCEPT
                       !.content = sockets[1].arrived[1]
                                       \o sockets[1].arrived[2] ])
    /\ thinkStart([ LastMsg EXCEPT !.content = sockets[1].arrived[3] ]) # -1
    /\ thoughtContent(LastMsg) = << "b" >>
    /\ Substring(LastMsg.content, thinkStart(LastMsg) + 7,
                 thinkEnd(LastMsg)) = << "b", " " >>
    /\ Len(mainContent(LastMsg)) > Len(sockets[1].arrived[3])

\* the text of message m after its open marker
AfterOpen(m) == Substring(m.content, thinkStart(m) + 7, Len(m.content))

\* C18 as stated: when done is handled while the last message is shown as
\* thinking, it is no longer shown as thinking afterwards, its reasoning
\* body is exactly the text after the open marker, its visible answer is
\* empty, and nothing is raised.
DoneFinalizesExact ==
    [][ OnDone(1) /\ isThinkingActive(LastMsg, TRUE, isLoading)
            => /\ ~ isThinkingActive(LastMsg', TRUE, isLoading')
               /\ thoughtContent(LastMsg') = AfterOpen(LastMsg')
               /\ mainContent(LastMsg') = << >>
               /\ fault' = fault ]_vars

\* C18 as amended: the same, the reasoning body being the text after the
\* open marker without the white space at its ends.
DoneFinalizesTrimmed ==
    [][ OnDone(1) /\ isThinkingActive(LastMsg, TRUE, isLoading)
            => /\ ~ isThinkingActive(LastMsg', TRUE, isLoading')
               /\ thoughtContent(LastMsg') = Trim(AfterOpen(LastMsg'))
               /\ mainContent(LastMsg') = << >>
               /\ fault' = fault ]_vars

\* done has been handled for a reply cut off inside its reasoning block,
\* whose text so far ends with a line break
CutOffInsideBlock ==
    /\ sockets[1].finished /\ ~ isLoading
    /\ BlockOpen(LastMsg)
    /\ AfterOpen(LastMsg) = << "b", "\n" >>
    /\ thoughtContent(LastMsg) = << "b" >>
    /\ mainContent(LastMsg) = << >>

\* C19: while the turn of a socket is in flight and a session other than
\* the socket's is selected, a token or sources event of the socket
\* changes no message but those of its own turn.
OtherSessionUntouched ==
    [][ \A i \in Sockets :
          /\ activeWebSocket = i
          /\ sockets[i].request.session_id # currentSessionId
          /\ TokenStep(i) \/ SourcesStep(i)
          => \A k \in 1..Len(chatHistory) :
                 chatHistory[k].turn # i
                     => chatHistory'[k] = chatHistory[k] ]_vars

ContainsMarker(text) ==
    \E i \in 1..Len(text) :
        StartsAt(text, SourcesOpen, i) \/ StartsAt(text, SourcesClose, i)

\* C20: a message whose content holds no <sources> marker, stored and read
\* back, has the role, the content and the source list it had.
RoundTrip ==
    [][ Reload
            => \A k \in 1..Len(chatHistory) :
                   ~ ContainsMarker(chatHistory[k].content)
                       => /\ chatHistory'[k].role = chatHistory[k].role
                          /\ chatHistory'[k].content = chatHistory[k].content
                          /\ SourceList(chatHistory'[k])
                                 = SourceList(chatHistory[k]) ]_vars

\* ------------------------------------------------ a stored string, parsed
\* The texts a <sources> block can hold: JSON, and text JSON.parse rejects
\* (the empty text among them).
ValidJson ==
    { << "[", "\"", "d", "\"", "]" >>, << "[", "]" >>, << "\"", "d", "\"" >> }
InvalidJson ==
    { << >>, << "d" >>, << "[", "d", "]" >>, << "[", "\"", "d", "\"" >>,
      << "[", "\"", "d", "\"", ",", "]" >> }

\* The content strings /api/chat/history can answer with: text, a block
\* and text after it, or text alone.
StoredPrefixes == { << >>, << "a" >>, << "a", " " >>, SourcesBlock }
StoredSuffixes == { << >>, << "b" >>, << "\n" >> }
StoredContents ==
    { pre \o SourcesOpen \o body \o SourcesClose \o post :
          pre \in StoredPrefixes, body \in ValidJson \cup InvalidJson,
          post \in StoredSuffixes }
    \cup { pre \o post : pre \in StoredPrefixes, post \in StoredSuffixes }

\* fetchHistory(2) is awaiting its response; `messages` is data.messages of
\* the response that is on its way.
ParseInit ==
    /\ isLoading = TRUE
    /\ activeWebSocket = Null
    /\ chatHistory = << >>
    /\ activePersona = "Steward"
    /\ chatSessions = InitialServerSessions
    /\ currentSessionId = 2
    /\ sockets = << >>
    /\ \E role \in { "user", "assistant" }, content \in StoredContents :
           requests =
               { [ id |-> 1, kind |-> "fetchHistory", sid |-> 2,
                   send |-> << >> ]
                 @@ [ messages |->
                        << Msg(role, content, NoSources, "Steward", 0) >> ] }
    /\ started = 1
    /\ serverSessions = InitialServerSessions
    /\ delivered = 1
    /\ fault = FALSE

\* fetchHistory after its await, the response being r.messages
HistoryArrives(r) ==
    /\ r.kind = "fetchHistory"
    /\ chatHistory' = MapParse(r.messages)
    /\ isLoading' = FALSE
    /\ Settled(r)
    /\ UNCHANGED << activeWebSocket, activePersona, sessions, sockets,
                    started, serverSessions, delivered, fault >>

ParseNext == \E r \in requests : HistoryArrives(r)

ParseSpec == ParseInit /\ [][ParseNext]_vars

EndsWith(s, p) == Len(s) >= Len(p) /\ StartsAt(s, p, Len(s) - Len(p) + 1)
Contains(s, p) == \E i \in 1..Len(s) : StartsAt(s, p, i)

\* C21: a stored message whose content ends with a <sources> block holding
\* text that is not JSON is returned as it is, content and (empty) sources,
\* and nothing is raised.
MalformedBlockKept ==
    [][ \A r \in requests :
          HistoryArrives(r)
              => /\ fault' = fault
                 /\ Len(chatHistory') = Len(r.messages)
                 /\ \A k \in 1..Len(r.messages) :
                        (\E body \in InvalidJson :
                             EndsWith(r.messages[k].content,
                                      SourcesOpen \o body \o SourcesClose))
                            => /\ chatHistory'[k] = r.messages[k]
                               /\ chatHistory'[k].sources = NoSources ]_vars

\* a history whose message ends with a block holding an unfinished JSON
\* array has been loaded, and the message shows the block
UnfinishedArrayLoaded ==
    /\ requests = { } /\ ~ isLoading /\ ~ fault
    /\ Len(chatHistory) = 1
    /\ chatHistory[1].content =
           << "a" >> \o SourcesOpen \o << "[", "\"", "d", "\"" >>
                     \o SourcesClose
    /\ chatHistory[1].sources = NoSources

\* C26: parseMessageContent changes a message only if its content ends
\* with </sources> and holds a <sources> before it: a content whose block
\* is followed by other text, or that has no block, is returned with the
\* content and the sources it had.
BlockExtractedOnlyAtEnd ==
    [][ \A r \in requests :
          HistoryArrives(r)
              => \A k \in 1..Len(r.messages) :
                     \/ ~ EndsWith(r.messages[k].content, SourcesClose)
                     \/ ~ Contains(r.messages[k].content, SourcesOpen)
                     => chatHistory'[k] = r.messages[k] ]_vars

\* a history whose message holds a well-formed block followed by a line
\* break has been loaded, and the message is as it was stored
BlockBeforeLineBreakLoaded ==
    /\ requests = { } /\ ~ isLoading
    /\ Len(chatHistory) = 1
    /\ chatHistory[1].content = << "a" >> \o SourcesBlock \o << "\n" >>
    /\ chatHistory[1].sources = NoSources

\* C22: the error event of the socket of the turn in flight leaves
\* isLoading false and activeWebSocket null, changes no message (the
\* assistant message keeps the text streamed so far, and no text is
\* written anywhere), and raises nothing.
ErrorEndsTurnKeepsContent ==
    [][ \A i \in Sockets :
          activeWebSocket = i /\ OnError(i)
              => /\ ~ isLoading' /\ activeWebSocket' = Null
                 /\ chatHistory' = chatHistory
                 /\ fault' = fault ]_vars

\* the socket of a turn that had streamed text has failed while the turn
\* was in flight: the turn is over and its assistant message holds that
\* text
ErroredWithPartialContent ==
    \E i \in Sockets :
        /\ sockets[i].errored /\ ~ sockets[i].cancelled
        /\ ~ sockets[i].finished
        /\ ~ isLoading /\ activeWebSocket = Null
        /\ Len(chatHistory) > 0
        /\ LastMsg.turn = i /\ LastMsg.role = "assistant"
        /\ LastMsg.content = sockets[i].fullResponse
        /\ LastMsg.content # << >>

\* ------------------------------------- one reply, and the turn's ending
\* The streamed turn of StreamSpec, which the user can stop and whose
\* socket can fail, and the session list, from which the user can select a
\* session while or after the reply streams.
TurnNext ==
    \/ StreamNext
    \/ StopGeneration
    \/ OnError(1)
    \/ \E k \in 1..Len(chatSessions) : SetCurrentSession(chatSessions[k])
    \/ \E r \in requests, ok \in BOOLEAN : FetchHistoryDone(r, ok)

TurnSpec == StreamInit /\ [][TurnNext]_vars

\* the messages MessageList shows as thinking
ShownActive ==
    { k \in 1..Len(chatHistory) :
          /\ chatHistory[k].role # "user"
          /\ isThinkingActive(chatHistory[k], k = Len(chatHistory),
                              isLoading) }

\* C23: at most one message is shown as thinking, and a message shown as
\* thinking is the assistant message of the turn in flight.
ActiveOnlyWhileStreaming ==
    /\ Cardinality(ShownActive) <= 1
    /\ \A k \in ShownActive :
           /\ activeWebSocket # Null
           /\ chatHistory[k].turn = activeWebSocket

\* the markers of message m are malformed: a close marker with no open
\* marker, or before the open marker
Malformed(m) ==
    /\ thinkEnd(m) # -1
    /\ thinkStart(m) = -1 \/ thinkEnd(m) < thinkStart(m)

\* C24: when the markers of the streamed message are malformed, its
\* visible answer is all of its content and its reasoning body is empty.
MalformedMarkersDegrade ==
    Malformed(LastMsg)
        => /\ mainContent(LastMsg) = LastMsg.content
           /\ thoughtContent(LastMsg) = << >>

\* l is a line of body that has a character other than white space, and
\* every line after it has none
IsLastNonEmptyLine(l, body) ==
    \E i \in 1..Len(body), j \in 1..Len(body) :
        /\ i <= j
        /\ l = SubSeq(body, i, j)
        /\ i = 1 \/ body[i - 1] = "\n"
        /\ j = Len(body) \/ body[j + 1] = "\n"
        /\ \A k \in i..j : body[k] # "\n"
        /\ \E k \in i..j : ~ IsSpace(body[k])
        /\ \A k \in (j + 1)..Len(body) : IsSpace(body[k])

\* C25: while the streamed message is shown as thinking, the snippet is
\* the last line of its reasoning body that holds a character other than
\* white space, and the fixed text when the body has no such line.
SnippetIsLastNonEmptyLine ==
    isThinkingActive(LastMsg, TRUE, isLoading)
        => IF \A k \in 1..Len(thoughtContent(LastMsg)) :
                  IsSpace(thoughtContent(LastMsg)[k])
           THEN activeSnippet(LastMsg) = ThinkingText
           ELSE IsLastNonEmptyLine(activeSnippet(LastMsg),
                                   thoughtContent(LastMsg))

\* a reasoning body of two lines with an empty line between them is
\* streaming, and the snippet is the second of them
SnippetAfterEmptyLine ==
    /\ isThinkingActive(LastMsg, TRUE, isLoading)
    /\ thoughtContent(LastMsg) = << "b", "\n", "\n", " ", "c" >>
    /\ activeSnippet(LastMsg) = << " ", "c" >>

\* C27: a socket that is open (connecting or connected) and has handled
\* neither its done event nor its error event is the one activeWebSocket
\* refers to.
ActiveSocketTracksOpenTurn ==
    \A i \in Sockets :
        IsOpen(i) /\ ~ sockets[i].finished /\ ~ sockets[i].errored
            => activeWebSocket = i

\* C28: while activeWebSocket refers to a socket, isLoading is true.
ActiveSocketImpliesLoading == activeWebSocket # Null => isLoading

\* Request r is the history fetch of a first setCurrentSession, and a
\* second setCurrentSession has selected another session since, whose
\* history has arrived and is shown: no turn was started, no session was
\* created or deleted, and the list shown is not the one the first state
\* showed.
OvertakenFetch(r) ==
    /\ r.kind = "fetchHistory" /\ r.id = 1
    /\ started = 2 /\ requests = { r }
    /\ r.sid # currentSessionId
    /\ sockets = << >>
    /\ chatSessions = InitialServerSessions
    /\ serverSessions = InitialServerSessions
    /\ chatHistory = MapParse(Stored(currentSessionId))
    /\ chatHistory # MapParse(Stored(r.sid))

\* C29: after setCurrentSession(A) and then setCurrentSession(B), when the
\* response for A arrives after the response for B, chatHistory still
\* holds the messages of B, the selected session.
LastSelectionWins ==
    [][ \A r \in requests :
          OvertakenFetch(r) /\ FetchHistoryDone(r, TRUE)
              => chatHistory' = MapParse(Stored(currentSessionId')) ]_vars

\* ----------------------------------------------------------- ConsultModal
\* The consult dialog keeps its own state, which the variables carry in
\* ConsultSpec: chatHistory is `messages`, isLoading is `isLoading`,
\* activeWebSocket is wsRef.current and sockets are the WebSockets that
\* handleSendMessage has constructed.  The store's other variables are not
\* touched.  `turn` is no field of the dialog's Message: it numbers the
\* questions, and no handler reads it.
ConsultMsg(role, content, sources, turn) ==
    [ role |-> role, content |-> content, sources |-> sources,
      turn |-> turn ]

\* the number of questions asked so far
Asked(h) == Len(SelectSeq(h, LAMBDA m : m.role = "user"))

\* userMsg: the text onopen's closure captured; outbox: the texts passed to
\* ws.send; arrived: the token fragments handed to onmessage, each with the
\* number of the question that was the latest one then (read by no
\* handler)
ConsultSocket(userMsg) ==
    [ readyState |-> CONNECTING, userMsg |-> userMsg, outbox |-> << >>,
      arrived |-> << >>, opened |-> FALSE, errored |-> FALSE,
      ended |-> FALSE ]

ConsultInit ==
    /\ isLoading = FALSE
    /\ activeWebSocket = Null
    /\ chatHistory = << >>
    /\ activePersona = "Steward"
    /\ chatSessions = << >>
    /\ currentSessionId = Null
    /\ sockets = << >>
    /\ requests = { }
    /\ started = 0
    /\ serverSessions = InitialServerSessions
    /\ delivered = 0
    /\ fault = FALSE

store == << activePersona, sessions, http >>

\* handleSendMessage, reached from the send button and the Enter key, both
\* disabled while isLoading; patientId is set
handleSendMessage(input) ==
    /\ ~ isLoading
    /\ Trim(input) # << >>
    /\ Asked(chatHistory) < MaxTurns
    /\ chatHistory' =
           Append(chatHistory,
                  ConsultMsg("user", input, NoSources,
                             Asked(chatHistory) + 1))
    /\ isLoading' = TRUE
    /\ IF activeWebSocket = Null
          \/ sockets[activeWebSocket].readyState # OPEN
       THEN /\ sockets' = Append(sockets, ConsultSocket(input))
            /\ activeWebSocket' = Len(sockets) + 1
       ELSE /\ sockets' = [ sockets EXCEPT
                              ![activeWebSocket].outbox = Append(@, input) ]
            /\ UNCHANGED activeWebSocket
    /\ UNCHANGED << store, delivered, fault >>

\* ws.onopen
ConsultOnOpen(i) ==
    /\ sockets[i].readyState = CONNECTING
    /\ Fires
    /\ sockets' = [ sockets EXCEPT ![i].readyState = OPEN,
                                   ![i].opened = TRUE,
                                   ![i].outbox = Append(@, sockets[i].userMsg) ]
    /\ UNCHANGED << chat, store, fault >>

\* a token branch that, when the last message is the user's, continues the
\* latest answer there is instead of starting a new one
ConsultTokenUpdateJoining(prev, data) ==
    LET answers == { k \in 1..Len(prev) : prev[k].role = "assistant" }
    IN  IF answers # { }
        THEN [ prev EXCEPT ![Max(answers)].content = @ \o data ]
        ELSE Append(prev, ConsultMsg("assistant", data, NoSources,
                                     Asked(prev)))

\* setMessages callback of the token branch (prev is not empty)
ConsultTokenUpdate(prev, data) ==
    LET last == prev[Len(prev)]
    IN  IF last.role = "assistant"
        THEN SetLast(prev, [ last EXCEPT !.content = @ \o data ])
        ELSE Append(prev, ConsultMsg("assistant", data, NoSources,
                                     Asked(prev)))

\* setMessages callback of the sources branch (prev is not empty)
ConsultSourcesUpdate(prev, data) ==
    LET last == prev[Len(prev)]
    IN  IF last.role = "assistant"
        THEN SetLast(prev, [ last EXCEPT !.sources = << data >> ])
        ELSE prev

\* ws.onmessage, data.type === 'token'; with no message, last.role throws
ConsultOnToken(i, data) ==
    /\ Delivers(i)
    /\ sockets' = [ sockets EXCEPT
                      ![i].arrived =
                          Append(@, [ turn |-> Asked(chatHistory),
                                      data |-> data ]) ]
    /\ IF Len(chatHistory) > 0
       THEN /\ chatHistory' = ConsultTokenUpdate(chatHistory, data)
            /\ UNCHANGED fault
       ELSE /\ fault' = TRUE
            /\ UNCHANGED chatHistory
    /\ UNCHANGED << isLoading, activeWebSocket, store >>

\* ws.onmessage, data.type === 'sources'
ConsultOnSources(i, data) ==
    /\ Delivers(i)
    /\ IF Len(chatHistory) > 0
       THEN /\ chatHistory' = ConsultSourcesUpdate(chatHistory, data)
            /\ UNCHANGED fault
       ELSE /\ fault' = TRUE
            /\ UNCHANGED chatHistory
    /\ UNCHANGED << isLoading, activeWebSocket, sockets, store >>

\* ws.onmessage, data.type === 'done'
ConsultOnDone(i) ==
    /\ Delivers(i)
    /\ isLoading' = FALSE
    /\ UNCHANGED << activeWebSocket, chatHistory, sockets, store, fault >>

\* ws.onerror: the connection has failed and the socket is closed
ConsultOnError(i) ==
    /\ Connected(i)
    /\ Fires
    /\ sockets' = [ sockets EXCEPT ![i].errored = TRUE,
                                   ![i].readyState = CLOSED ]
    /\ isLoading' = FALSE
    /\ UNCHANGED << activeWebSocket, chatHistory, store, fault >>

\* the peer closes the connection: the socket has no onclose handler
ConsultOnClose(i) ==
    /\ sockets[i].readyState = OPEN
    /\ Fires
    /\ sockets' = [ sockets EXCEPT ![i].readyState = CLOSED,
                                   ![i].ended = TRUE ]
    /\ UNCHANGED << chat, store, fault >>

ConsultNext ==
    \/ \E q \in Queries : handleSendMessage(q)
    \/ \E i \in 1..Len(sockets) : ConsultOnOpen(i)
    \/ \E i \in 1..Len(sockets), d \in Fragments : ConsultOnToken(i, d)
    \/ \E i \in 1..Len(sockets), s \in SourceLists : ConsultOnSources(i, s)
    \/ \E i \in 1..Len(sockets) : ConsultOnDone(i)
    \/ \E i \in 1..Len(sockets) : ConsultOnError(i)
    \/ \E i \in 1..Len(sockets) : ConsultOnClose(i)

ConsultSpec == ConsultInit /\ [][ConsultNext]_vars

\* the token fragments socket i delivered while question k was the latest
\* one, in arrival order
RECURSIVE DataOf(_)
DataOf(events) ==
    IF events = << >> THEN << >>
    ELSE Head(events).data \o DataOf(Tail(events))
TurnTokens(i, k) ==
    DataOf(SelectSeq(sockets[i].arrived, LAMBDA e : e.turn = k))

\* C30: in the consult dialog every assistant message stands directly after
\* the user message of its question (so a question has at most one), and
\* its content is the concatenation, in arrival order, of the tokens that
\* arrived for that question, which all came from one socket; a sources
\* event changes the last message's sources when that message is the
\* assistant's and changes nothing otherwise; nothing is raised.
ConsultAnswersFollowQuestions ==
    /\ [] /\ ~ fault
          /\ \A k \in 1..Len(chatHistory) :
                 chatHistory[k].role = "assistant"
                     => /\ k > 1
                        /\ chatHistory[k - 1].role = "user"
                        /\ chatHistory[k - 1].turn = chatHistory[k].turn
                        /\ \E i \in Sockets :
                               /\ chatHistory[k].content =
                                      TurnTokens(i, chatHistory[k].turn)
                               /\ \A j \in Sockets \ { i } :
                                      TurnTokens(j, chatHistory[k].turn)
                                          = << >>
    /\ [][ \A i \in Sockets, s \in SourceLists :
             ConsultOnSources(i, s)
                 => chatHistory' =
                        IF LastMsg.role = "assistant"
                        THEN SetLast(chatHistory,
                                     [ LastMsg EXCEPT !.sources = << s >> ])
                        ELSE chatHistory ]_vars

\* a follow-up question has been sent on the socket that answered the
\* first one, and its answer is a message of its own
FollowUpAnswered ==
    /\ Len(sockets) = 1
    /\ Len(sockets[1].outbox) = 2
    /\ Len(chatHistory) = 4
    /\ chatHistory[2].role = "assistant" /\ chatHistory[2].turn = 1
    /\ chatHistory[2].content # << >>
    /\ chatHistory[4].role = "assistant" /\ chatHistory[4].turn = 2
    /\ chatHistory[4].content = TurnTokens(1, 2)
    /\ chatHistory[4].content # << >>

====
